---- MODULE Spec2Model ----
(***************************************************************************)
(* State-machine model of tools/train_utils/train_utils.py (DSVT):         *)
(* train_model (the run driver), train_one_epoch (the epoch driver),       *)
(* checkpoint_state and save_checkpoint.  Every worker process of a        *)
(* distributed run executes train_model with its own rank; the workers     *)
(* only meet in commu_utils.average_reduce_value, a blocking collective.   *)
(***************************************************************************)
EXTENDS Integers, Sequences, FiniteSets, TLC

\* ------------------------------------------------------------------ bounds
MaxEpochs == 3
MaxLen == 3
MaxLoader == 4
MaxRanks == 3
MaxInterval == 3
MaxDt == 4
MaxKeep == 2
MaxLast == 3
MaxPreMtime == 2

\* ------------------------------------------------------------------ helpers
Max(a, b) == IF a >= b THEN a ELSE b

Min(a, b) == IF a <= b THEN a ELSE b

RECURSIVE SumSeq(_)
SumSeq(s) == IF s = <<>> THEN 0 ELSE Head(s) + SumSeq(Tail(s))

RECURSIVE SumOver(_, _)
SumOver(f, S) == IF S = {} THEN 0
                 ELSE LET x == CHOOSE y \in S : TRUE IN f[x] + SumOver(f, S \ {x})

\* ------------------------------------------------------------------ state
VARIABLES
  cfg,                  \* the arguments of train_model (fixed for a run)
  env,                  \* what the collaborators may do: batch timings, losses, and
                        \* whether tb_dict holds the <<head, rcnn>> loss keys
  pc,                   \* per rank: position in train_model / train_one_epoch
  err,                  \* per rank: the exception that ended the run, "" if none
  cur_epoch,            \* per rank: train_model's loop variable
  accumulated_iter,     \* per rank: train_model's global step counter
  augment_disable_flag, \* per rank: train_model's one-shot flag
  data_augmentor,       \* per rank: the dataset's augmentation configuration
  aug_replaced,         \* per rank: how often data_augmentor was replaced (history)
  loop,                 \* per rank: train_one_epoch's locals (acc, cur_it, start_it, ...)
  iter,                 \* per rank: the dataloader iterators (train_model's and the local one)
  coll,                 \* per rank: the collective: calls entered, contributions, results
  lead,                 \* rank 0: meters, pbar/tbar clocks, ckpt_save_cnt
  hist,                 \* rank 0: values fed to the meters (history, for the claims)
  log,                  \* per rank: the lines given to logger.info by line 140: how many, and the last
  disk,                 \* ckpt_save_dir: file name -> record and mtime
  sweep,                \* the last retention sweep: directory before it, files removed
  resumed               \* whether the run was restarted from a checkpoint

vars == <<cfg, env, pc, err, cur_epoch, accumulated_iter, augment_disable_flag,
          data_augmentor, aug_replaced, loop, iter, coll, lead, hist, log, disk,
          sweep, resumed>>

Ranks == 0 .. cfg.nranks - 1

\* HOOK absent from cfg (cfg.get('HOOK', None) is None)
NoHook == -1

\* ------------------------------------------------------------------ meters
\* common_utils.AverageMeter: val, sum, count; avg = sum / count
MeterNew == [val |-> 0, sum |-> 0, count |-> 0]

MeterUpdate(m, v) == [val |-> v, sum |-> m.sum + v, count |-> m.count + 1]

MeterReset(m) == MeterNew

MeterNames == {"data_time", "batch_time", "forward_time", "loss_disp",
               "hm_loss_disp", "loc_loss_disp", "rcnn_cls_loss_disp", "rcnn_reg_loss_disp"}

TimeMeters == {"data_time", "batch_time", "forward_time"}

LossMeters == MeterNames \ TimeMeters

\* ------------------------------------------------------------------ files
\* ckpt_save_dir: name 0 is latest_model.pth, name k >= 1 is checkpoint_epoch_k.pth
LatestModel == 0

FileNames == 0 .. MaxEpochs + 1

EpochFiles == FileNames \ {LatestModel}

NoFile == [epoch |-> -1, it |-> -1, mtime |-> 0]

\* glob.glob(ckpt_save_dir / 'checkpoint_epoch_*.pth') on directory d
CkptList(d) == {f \in EpochFiles : d[f].mtime > 0}

\* ------------------------------------------------------------------ pure parts of the code
\* train_model: total_it_each_epoch
TotalItEachEpoch ==
  IF cfg.merge THEN cfg.loader_len \div Max(cfg.total_epochs, 1) ELSE cfg.loader_len

\* train_one_epoch: start_it = accumulated_iter % total_it_each_epoch
StartIt(acc) == acc % TotalItEachEpoch

\* NextBatch without the except branch: StopIteration propagates
NextBatchNoRestart(it) ==
  LET pos == IF it.is_main THEN it.main_pos ELSE it.own_pos IN
  IF pos < cfg.pass_len
  THEN [ok |-> TRUE, batch |-> pos, restarted |-> FALSE,
        it |-> IF it.is_main THEN [it EXCEPT !.main_pos = pos + 1]
                             ELSE [it EXCEPT !.own_pos = pos + 1]]
  ELSE [ok |-> FALSE, batch |-> -1, restarted |-> FALSE, it |-> it]

\* train_one_epoch: try: batch = next(dataloader_iter) except StopIteration: restart
NextBatch(it) ==
  LET pos == IF it.is_main THEN it.main_pos ELSE it.own_pos IN
  IF pos < cfg.pass_len
  THEN [ok |-> TRUE, batch |-> pos, restarted |-> FALSE,
        it |-> IF it.is_main THEN [it EXCEPT !.main_pos = pos + 1]
                             ELSE [it EXCEPT !.own_pos = pos + 1]]
  ELSE IF cfg.pass_len > 0
  THEN [ok |-> TRUE, batch |-> 0, restarted |-> TRUE,
        it |-> [it EXCEPT !.is_main = FALSE, !.own_pos = 1]]
  ELSE [ok |-> FALSE, batch |-> -1, restarted |-> TRUE,
        it |-> [it EXCEPT !.is_main = FALSE, !.own_pos = 0]]

\* StepCounter that restarts the count at each multiple of the epoch length
StepCounterWrap(acc) == (acc + 1) % TotalItEachEpoch

\* train_one_epoch: the global step after a completed training step
StepCounter(acc) == acc + 1

\* commu_utils.average_reduce_value: the mean over all participants, kept as its
\* numerator (the sum); the denominator is cfg.nranks
AverageReduceValue(k) == SumOver([s \in Ranks |-> coll[s].val[k]], Ranks)

\* train_one_epoch: the condition of the verbose log line
LogDue(acc, cur_it, start_it) ==
  \/ (acc % cfg.logger_iter_interval = 0 /\ cur_it # start_it)
  \/ cur_it + 1 = TotalItEachEpoch

\* train_one_epoch: second_each_iter = elapsed / max(cur_it - start_it + 1, 1.0), as
\* numerator and denominator
SecondEachIterDen(cur_it, start_it) == Max(cur_it - start_it + 1, 1)

\* remaining_second_each_epoch * SecondEachIterDen
RemainingEachEpoch(elapsed, cur_it) == elapsed * (TotalItEachEpoch - cur_it)

\* RemainingAll that counts the running iteration as done
RemainingAllAfter(elapsed, epoch, cur_it) ==
  elapsed * ((cfg.total_epochs - epoch) * TotalItEachEpoch - (cur_it + 1))

\* remaining_second_all * SecondEachIterDen
RemainingAll(elapsed, epoch, cur_it) ==
  elapsed * ((cfg.total_epochs - epoch) * TotalItEachEpoch - cur_it)

\* ResetAfterLog that leaves out the two rcnn meters
ResetAfterLogNoRcnn(m) ==
  [n \in MeterNames |->
     IF n \in {"loss_disp", "hm_loss_disp", "loc_loss_disp"} THEN MeterReset(m[n]) ELSE m[n]]

\* train_one_epoch: the meters reset after the log line
ResetAfterLog(m) ==
  [n \in MeterNames |-> IF n \in LossMeters THEN MeterReset(m[n]) ELSE m[n]]

\* train_one_epoch: ckpt_save_cnt = 1
CkptSaveCntInit == 1

\* LatestDue with > for >=
LatestDueStrict(elapsed, cnt) == elapsed \div cfg.ckpt_save_time_interval > cnt

\* train_one_epoch: time_past_this_epoch // ckpt_save_time_interval >= ckpt_save_cnt
LatestDue(elapsed, cnt) == elapsed \div cfg.ckpt_save_time_interval >= cnt

\* CheckpointState that records the step before the one just completed
CheckpointStateStale(epoch, it) == [epoch |-> epoch, it |-> it - 1]

\* checkpoint_state: the record (model and optimizer state are the collaborators')
CheckpointState(epoch, it) == [epoch |-> epoch, it |-> it]

\* save_checkpoint: torch.save(state, filename + '.pth') at wall-clock time now
SaveCheckpoint(d, state, f, now) ==
  [d EXCEPT ![f] = [epoch |-> state.epoch, it |-> state.it, mtime |-> now]]

\* HookDue without the one-shot flag
HookDueEveryEpoch(epoch, flag) ==
  /\ cfg.hook # NoHook
  /\ cfg.total_epochs - cfg.hook <= epoch

\* train_model: the DisableAugmentationHook condition
HookDue(epoch, flag) ==
  /\ cfg.hook # NoHook
  /\ cfg.total_epochs - cfg.hook <= epoch
  /\ ~flag

\* train_model: trained_epoch % ckpt_save_interval == 0 and rank == 0
EpochSaveDue(r, trained_epoch) == trained_epoch % cfg.ckpt_save_interval = 0 /\ r = 0

\* SweepCount that removes only the files beyond max_ckpt_save_num
SweepCountExcess(n) == IF n >= cfg.max_ckpt_save_num THEN n - cfg.max_ckpt_save_num ELSE 0

\* train_model: range(0, len(ckpt_list) - max_ckpt_save_num + 1) when the list is full
SweepCount(n) == IF n >= cfg.max_ckpt_save_num THEN n - cfg.max_ckpt_save_num + 1 ELSE 0

\* train_model: ckpt_list.sort(key=os.path.getmtime) and the removal of its first
\* SweepCount files: the sets the sweep may remove (files of equal mtime sort in
\* the directory's order, which is arbitrary)
SweepChoices(d) ==
  LET l == CkptList(d)
      n == Min(SweepCount(Cardinality(l)), Cardinality(l)) IN
  {D \in SUBSET l : /\ Cardinality(D) = n
                    /\ \A x \in D, y \in l \ D : d[x].mtime <= d[y].mtime}

\* ------------------------------------------------------------------ start of a run
NoLoop == [acc |-> 0, entered |-> 0, iters |-> 0, cur_it |-> 0, start_it |-> 0,
           batch |-> -1, restarted |-> FALSE, restarts |-> 0, stale |-> FALSE,
           data_t |-> 0, fwd_t |-> 0, batch_t |-> 0,
           avg_data |-> 0, avg_fwd |-> 0, avg_batch |-> 0,
           loss |-> 0, head |-> FALSE, rcnn |-> FALSE]

\* the values fed to each meter: since the last log line (win), in the window the
\* last log line showed (shown), since the meters were made (all)
NoHist == [win |-> [n \in MeterNames |-> <<>>], shown |-> [n \in MeterNames |-> <<>>],
           all |-> [n \in MeterNames |-> <<>>]]

NoSweep == [before |-> [f \in FileNames |-> 0], removed |-> {}, written |-> -1]

\* train_model up to the head of `for cur_epoch in tbar`, called with arguments c
\* at wall-clock time now
Entry(c, now) ==
  LET R == 0 .. c.nranks - 1 IN
  [pc |-> [r \in R |-> "epoch"],
   err |-> [r \in R |-> ""],
   cur_epoch |-> [r \in R |-> c.start_epoch],
   accumulated_iter |-> [r \in R |-> c.start_iter],
   augment_disable_flag |-> [r \in R |-> FALSE],
   loop |-> [r \in R |-> NoLoop],
   iter |-> [r \in R |-> [main_pos |-> 0, is_main |-> TRUE, own_pos |-> 0]],
   coll |-> [r \in R |-> [n |-> 0, k |-> 0, val |-> <<0, 0, 0>>]],
   lead |-> [meters |-> [n \in MeterNames |-> MeterNew], clock |-> now,
             pbar_start |-> now, tbar_start |-> now,
             ckpt_save_cnt |-> CkptSaveCntInit, latest_writes |-> 0,
             checks |-> 0, emitted |-> FALSE, wrote |-> FALSE, max_gap |-> 0],
   log |-> [r \in R |-> [count |-> 0, last |-> <<>>]]]

\* the state after train_model(c) was entered with directory d and collaborators e
InitWith(c, e, d) ==
  LET s == Entry(c, MaxPreMtime) IN
  /\ cfg = c
  /\ env = e
  /\ disk = d
  /\ pc = s.pc
  /\ err = s.err
  /\ cur_epoch = s.cur_epoch
  /\ accumulated_iter = s.accumulated_iter
  /\ augment_disable_flag = s.augment_disable_flag
  /\ data_augmentor = [r \in 0 .. c.nranks - 1 |-> "full"]
  /\ aug_replaced = [r \in 0 .. c.nranks - 1 |-> 0]
  /\ loop = s.loop
  /\ iter = s.iter
  /\ coll = s.coll
  /\ lead = s.lead
  /\ hist = NoHist
  /\ log = s.log
  /\ sweep = NoSweep
  /\ resumed = FALSE

\* ------------------------------------------------------------------ actions
\* train_model: one pass of the loop head up to the call of train_one_epoch, and
\* train_one_epoch up to the head of its loop
StartEpoch(r) ==
  /\ pc[r] = "epoch"
  /\ cur_epoch[r] < cfg.total_epochs
  /\ LET hook == HookDue(cur_epoch[r], augment_disable_flag[r]) IN
     /\ augment_disable_flag' = [augment_disable_flag EXCEPT ![r] = @ \/ hook]
     /\ data_augmentor' = [data_augmentor EXCEPT ![r] = IF hook THEN "reduced" ELSE @]
     /\ aug_replaced' = [aug_replaced EXCEPT ![r] = IF hook THEN @ + 1 ELSE @]
  /\ iter' = [iter EXCEPT ![r] =
                IF TotalItEachEpoch = cfg.loader_len
                THEN [@ EXCEPT !.is_main = FALSE, !.own_pos = 0]
                ELSE [@ EXCEPT !.is_main = TRUE]]
  /\ IF TotalItEachEpoch = 0
     THEN /\ pc' = [pc EXCEPT ![r] = "aborted"]
          /\ err' = [err EXCEPT ![r] = "ZeroDivisionError"]
          /\ UNCHANGED <<loop, lead, hist>>
     ELSE /\ pc' = [pc EXCEPT ![r] = "fetch"]
          /\ err' = err
          /\ loop' = [loop EXCEPT ![r] =
               [NoLoop EXCEPT !.acc = accumulated_iter[r],
                              !.entered = accumulated_iter[r],
                              !.start_it = StartIt(accumulated_iter[r]),
                              !.cur_it = StartIt(accumulated_iter[r]),
                              !.stale = LET it == iter'[r] IN
                                        it.is_main /\ it.main_pos >= cfg.pass_len]]
          /\ IF r = 0
             THEN /\ lead' = [lead EXCEPT !.meters = [n \in MeterNames |-> MeterNew],
                                          !.pbar_start = lead.clock,
                                          !.ckpt_save_cnt = CkptSaveCntInit,
                                          !.latest_writes = 0, !.checks = 0,
                                          !.emitted = FALSE, !.wrote = FALSE,
                                          !.max_gap = 0]
                  /\ hist' = NoHist
             ELSE UNCHANGED <<lead, hist>>
  /\ UNCHANGED <<cfg, env, cur_epoch, accumulated_iter, coll, log, disk, sweep, resumed>>

\* train_one_epoch: one iteration from next(dataloader_iter) to the first call of
\* average_reduce_value
TrainStep(r) ==
  /\ pc[r] = "fetch"
  /\ \E dd \in env.data_dts, df \in env.fwd_dts, l \in env.losses, keys \in env.tb_keys :
       LET nb == NextBatch(iter[r]) IN
       /\ iter' = [iter EXCEPT ![r] = nb.it]
       /\ IF ~nb.ok
          THEN /\ pc' = [pc EXCEPT ![r] = "aborted"]
               /\ err' = [err EXCEPT ![r] = "StopIteration"]
               /\ UNCHANGED <<loop, coll, lead>>
          ELSE /\ pc' = [pc EXCEPT ![r] = "reduce"]
               /\ err' = err
               /\ loop' = [loop EXCEPT ![r] =
                    [@ EXCEPT !.acc = StepCounter(@), !.iters = @ + 1,
                              !.batch = nb.batch, !.restarted = nb.restarted,
                              !.restarts = IF nb.restarted THEN @ + 1 ELSE @,
                              !.data_t = dd, !.fwd_t = df, !.batch_t = dd + df,
                              !.loss = l, !.head = keys[1], !.rcnn = keys[2]]]
               /\ coll' = [coll EXCEPT ![r] =
                    [n |-> @.n + 1, k |-> 1, val |-> [@.val EXCEPT ![1] = dd]]]
               /\ lead' = IF r = 0 THEN [lead EXCEPT !.clock = @ + dd + df] ELSE lead
  /\ UNCHANGED <<cfg, env, cur_epoch, accumulated_iter, augment_disable_flag,
                 data_augmentor, aug_replaced, hist, log, disk, sweep, resumed>>

\* train_one_epoch: an iteration whose model_func (or backward, or optimizer step)
\* raises: the exception propagates out of train_model
Fail(r) ==
  /\ pc[r] = "fetch"
  /\ LET nb == NextBatch(iter[r]) IN
     /\ iter' = [iter EXCEPT ![r] = nb.it]
     /\ pc' = [pc EXCEPT ![r] = "aborted"]
     /\ err' = [err EXCEPT ![r] = IF nb.ok THEN "model_func" ELSE "StopIteration"]
  /\ UNCHANGED <<cfg, env, cur_epoch, accumulated_iter, augment_disable_flag,
                 data_augmentor, aug_replaced, loop, coll, lead, hist, log, disk,
                 sweep, resumed>>

\* ReduceCalls with the third reduction inside `if rank == 0`
ReduceCallsLeadOnly(r) == IF r = 0 THEN 3 ELSE 2

\* train_one_epoch: the calls of average_reduce_value in one iteration on rank r
ReduceCalls(r) == 3

\* the local value a worker contributes to the k-th reduction of an iteration
Contribution(l, k) == IF k = 1 THEN l.data_t ELSE IF k = 2 THEN l.fwd_t ELSE l.batch_t

\* train_one_epoch: a call of average_reduce_value returns once every participant
\* has entered it; the next call is entered at once
ReducePass(r) ==
  /\ pc[r] = "reduce"
  /\ \A s \in Ranks : coll[s].n >= coll[r].n
  /\ LET k == coll[r].k
         v == AverageReduceValue(k) IN
     /\ loop' = [loop EXCEPT ![r] =
          IF k = 1 THEN [@ EXCEPT !.avg_data = v]
          ELSE IF k = 2 THEN [@ EXCEPT !.avg_fwd = v]
          ELSE [@ EXCEPT !.avg_batch = v]]
     /\ IF k < ReduceCalls(r)
        THEN /\ coll' = [coll EXCEPT ![r] =
                  [n |-> @.n + 1, k |-> k + 1,
                   val |-> [@.val EXCEPT ![k + 1] = Contribution(loop[r], k + 1)]]]
             /\ pc' = pc
        ELSE /\ coll' = [coll EXCEPT ![r].k = 0]
             /\ pc' = [pc EXCEPT ![r] = "tail"]
  /\ UNCHANGED <<cfg, env, err, cur_epoch, accumulated_iter, augment_disable_flag,
                 data_augmentor, aug_replaced, iter, lead, hist, log, disk, sweep,
                 resumed>>

\* train_one_epoch: the meter updates of the lead worker (lines 106-121)
UpdateMeters(m, l) ==
  [n \in MeterNames |->
     IF n = "data_time" THEN MeterUpdate(m[n], l.avg_data)
     ELSE IF n = "forward_time" THEN MeterUpdate(m[n], l.avg_fwd)
     ELSE IF n = "batch_time" THEN MeterUpdate(m[n], l.avg_batch)
     ELSE IF n = "loss_disp" THEN MeterUpdate(m[n], l.loss)
     ELSE IF n \in {"hm_loss_disp", "loc_loss_disp"}
          THEN (IF l.head THEN MeterUpdate(m[n], l.loss) ELSE m[n])
     ELSE (IF l.rcnn THEN MeterUpdate(m[n], l.loss) ELSE m[n])]

\* the values UpdateMeters fed to each meter, appended to the history h
Fed(h, l) ==
  [n \in MeterNames |->
     IF n = "data_time" THEN Append(h[n], l.avg_data)
     ELSE IF n = "forward_time" THEN Append(h[n], l.avg_fwd)
     ELSE IF n = "batch_time" THEN Append(h[n], l.avg_batch)
     ELSE IF n = "loss_disp" THEN Append(h[n], l.loss)
     ELSE IF n \in {"hm_loss_disp", "loc_loss_disp"}
          THEN (IF l.head THEN Append(h[n], l.loss) ELSE h[n])
     ELSE (IF l.rcnn THEN Append(h[n], l.loss) ELSE h[n])]

\* train_one_epoch: the fields of the verbose log line (lines 130-143)
LogLine(r, l, m, elapsed, elapsed_all) ==
  [rank |-> r, epoch |-> cur_epoch[r], acc_iter |-> l.acc, cur_it |-> l.cur_it,
   total_it |-> TotalItEachEpoch,
   elapsed |-> elapsed, elapsed_all |-> elapsed_all,
   den |-> SecondEachIterDen(l.cur_it, l.start_it),
   remaining_each_epoch |-> RemainingEachEpoch(elapsed, l.cur_it),
   remaining_all |-> RemainingAll(elapsed, cur_epoch[r], l.cur_it),
   avg |-> [n \in MeterNames |-> [sum |-> m[n].sum, count |-> m[n].count]]]

\* train_one_epoch: the rest of an iteration after the reductions (lines 103-174)
\* and the step of `for cur_it in range(start_it, total_it_each_epoch)`
IterTail(r) ==
  /\ pc[r] = "tail"
  /\ LET l == loop[r]
         m1 == UpdateMeters(lead.meters, l)
         emit == cfg.use_logger /\ LogDue(l.acc, l.cur_it, l.start_it)
         elapsed == lead.clock - lead.pbar_start
         due == LatestDue(elapsed, lead.ckpt_save_cnt) IN
     /\ IF r = 0
        THEN /\ lead' = [lead EXCEPT
                  !.meters = IF emit THEN ResetAfterLog(m1) ELSE m1,
                  !.emitted = emit,
                  !.ckpt_save_cnt = IF due THEN @ + 1 ELSE @,
                  !.latest_writes = IF due THEN @ + 1 ELSE @,
                  !.wrote = due,
                  !.checks = @ + 1,
                  !.max_gap = Max(@, l.batch_t)]
             /\ hist' = [win |-> IF emit THEN NoHist.win ELSE Fed(hist.win, l),
                         shown |-> IF emit THEN Fed(hist.win, l) ELSE hist.shown,
                         all |-> Fed(hist.all, l)]
             /\ log' = [log EXCEPT ![r] =
                  IF emit
                  THEN [count |-> @.count + 1,
                        last |-> <<LogLine(r, l, m1, elapsed, lead.clock - lead.tbar_start)>>]
                  ELSE @]
             /\ disk' = IF due
                        THEN SaveCheckpoint(disk, CheckpointState(cur_epoch[r], l.acc),
                                            LatestModel, lead.clock)
                        ELSE disk
        ELSE UNCHANGED <<lead, hist, log, disk>>
     /\ IF l.cur_it + 1 < TotalItEachEpoch
        THEN /\ loop' = [loop EXCEPT ![r].cur_it = @ + 1]
             /\ pc' = [pc EXCEPT ![r] = "fetch"]
        ELSE /\ loop' = loop
             /\ pc' = [pc EXCEPT ![r] = "epoch_end"]
  /\ UNCHANGED <<cfg, env, err, cur_epoch, accumulated_iter, augment_disable_flag,
                 data_augmentor, aug_replaced, iter, coll, sweep, resumed>>

\* train_one_epoch returns; train_model's retention sweep and end-of-epoch save
\* (lines 176-178 and 235-267), then the next value of cur_epoch
EndEpoch(r) ==
  /\ pc[r] = "epoch_end"
  /\ accumulated_iter' = [accumulated_iter EXCEPT ![r] = loop[r].acc]
  /\ LET trained_epoch == cur_epoch[r] + 1 IN
     IF EpochSaveDue(r, trained_epoch)
     THEN \E D \in SweepChoices(disk) :
            LET swept == [f \in FileNames |-> IF f \in D THEN NoFile ELSE disk[f]] IN
            /\ disk' = SaveCheckpoint(swept,
                                      CheckpointState(trained_epoch, accumulated_iter'[r]),
                                      trained_epoch, lead.clock)
            /\ sweep' = [before |-> [f \in FileNames |-> disk[f].mtime],
                         removed |-> D, written |-> trained_epoch]
     ELSE UNCHANGED <<disk, sweep>>
  /\ cur_epoch' = [cur_epoch EXCEPT ![r] = @ + 1]
  /\ pc' = [pc EXCEPT ![r] = "epoch"]
  /\ UNCHANGED <<cfg, env, err, augment_disable_flag, data_augmentor, aug_replaced,
                 loop, iter, coll, lead, hist, log, resumed>>

\* train_model: the loop over the epochs is over
Finish(r) ==
  /\ pc[r] = "epoch"
  /\ cur_epoch[r] >= cfg.total_epochs
  /\ pc' = [pc EXCEPT ![r] = "done"]
  /\ UNCHANGED <<cfg, env, err, cur_epoch, accumulated_iter, augment_disable_flag,
                 data_augmentor, aug_replaced, loop, iter, coll, lead, hist, log,
                 disk, sweep, resumed>>

\* the process is stopped and train_model is called again with start_epoch and
\* start_iter taken from the `epoch` and `it` fields of checkpoint file f
Resume(f) ==
  /\ ~resumed
  /\ cfg.nranks = 1
  /\ disk[f].mtime > 0
  /\ cfg' = [cfg EXCEPT !.start_epoch = disk[f].epoch, !.start_iter = disk[f].it]
  /\ LET s == Entry(cfg', lead.clock) IN
     /\ pc' = s.pc
     /\ err' = s.err
     /\ cur_epoch' = s.cur_epoch
     /\ accumulated_iter' = s.accumulated_iter
     /\ augment_disable_flag' = s.augment_disable_flag
     /\ loop' = s.loop
     /\ iter' = s.iter
     /\ coll' = s.coll
     /\ lead' = s.lead
     /\ log' = s.log
  /\ data_augmentor' = [r \in Ranks |-> "full"]
  /\ aug_replaced' = [r \in Ranks |-> 0]
  /\ hist' = NoHist
  /\ resumed' = TRUE
  /\ UNCHANGED <<env, disk, sweep>>

\* ------------------------------------------------------------------ specifications
\* the arguments every specification starts from; each varies some of them
BaseCfg == [nranks |-> 1, total_epochs |-> 1, start_epoch |-> 0, start_iter |-> 0,
            loader_len |-> 1, pass_len |-> 1, merge |-> FALSE, use_logger |-> FALSE,
            logger_iter_interval |-> 1, ckpt_save_time_interval |-> 1,
            ckpt_save_interval |-> 1, max_ckpt_save_num |-> MaxKeep, hook |-> NoHook]

\* collaborators whose every batch takes one tick and gives the same loss
BaseEnv == [data_dts |-> {0}, fwd_dts |-> {1}, losses |-> {1},
            tb_keys |-> {<<FALSE, FALSE>>}]

EmptyDir == [f \in FileNames |-> NoFile]

\* Spec: one process; any run length, resume point, loader length, batches per
\* pass and hook threshold; the training step may raise
CfgRun ==
  {[BaseCfg EXCEPT !.total_epochs = te, !.start_epoch = se, !.start_iter = si,
                   !.loader_len = ll, !.pass_len = pl, !.merge = mg, !.hook = hk,
                   !.ckpt_save_time_interval = 2] :
     te \in 1 .. MaxEpochs, se \in 0 .. 1, si \in 0 .. MaxLen, ll \in 1 .. MaxLoader,
     pl \in 1 .. MaxLoader, mg \in BOOLEAN, hk \in {NoHook} \cup (0 .. MaxLast)}

Init == \E c \in CfgRun : InitWith(c, BaseEnv, EmptyDir)

Next ==
  \/ \E r \in Ranks : StartEpoch(r)
  \/ \E r \in Ranks : TrainStep(r)
  \/ \E r \in Ranks : Fail(r)
  \/ \E r \in Ranks : ReducePass(r)
  \/ \E r \in Ranks : IterTail(r)
  \/ \E r \in Ranks : EndEpoch(r)
  \/ \E r \in Ranks : Finish(r)

Spec == Init /\ [][Next]_vars

\* the steps of a run in which no exception is raised
NextRun ==
  \/ \E r \in Ranks : StartEpoch(r)
  \/ \E r \in Ranks : TrainStep(r)
  \/ \E r \in Ranks : ReducePass(r)
  \/ \E r \in Ranks : IterTail(r)
  \/ \E r \in Ranks : EndEpoch(r)
  \/ \E r \in Ranks : Finish(r)

\* SpecCkpt: the end-of-epoch saves into a directory that may already hold
\* epoch-numbered checkpoints (a file's record names its own epoch)
PreDirs ==
  {[f \in FileNames |-> IF f = LatestModel \/ mt[f] = 0 THEN NoFile
                        ELSE [epoch |-> f, it |-> 0, mtime |-> mt[f]]] :
     mt \in [EpochFiles -> 0 .. MaxPreMtime]}

CfgCkpt ==
  {[BaseCfg EXCEPT !.total_epochs = te, !.ckpt_save_interval = si,
                   !.max_ckpt_save_num = n, !.ckpt_save_time_interval = 2] :
     te \in 1 .. MaxEpochs, si \in 1 .. 2, n \in 1 .. MaxKeep}

InitCkpt ==
  \E c \in CfgCkpt, d \in PreDirs :
    InitWith(c, [BaseEnv EXCEPT !.fwd_dts = {0, 1}], d)

SpecCkpt == InitCkpt /\ [][NextRun]_vars

\* SpecMeter: the lead worker with the verbose logger; losses and tb_dict keys vary
CfgMeter ==
  {[BaseCfg EXCEPT !.total_epochs = te, !.loader_len = ll, !.pass_len = ll,
                   !.use_logger = TRUE, !.logger_iter_interval = li,
                   !.ckpt_save_time_interval = MaxDt] :
     te \in 1 .. 2, ll \in 1 .. MaxLen, li \in 1 .. MaxInterval}

InitMeter ==
  \E c \in CfgMeter :
    InitWith(c, [BaseEnv EXCEPT !.losses = {1, 2},
                                !.tb_keys = {<<TRUE, FALSE>>, <<FALSE, TRUE>>}], EmptyDir)

SpecMeter == InitMeter /\ [][NextRun]_vars

\* SpecTime: the lead worker with iterations of any duration up to MaxDt ticks
CfgTime ==
  {[BaseCfg EXCEPT !.total_epochs = 2, !.loader_len = ll, !.pass_len = ll,
                   !.ckpt_save_time_interval = ti] :
     ll \in 1 .. MaxLen, ti \in 1 .. 2}

InitTime ==
  \E c \in CfgTime : InitWith(c, [BaseEnv EXCEPT !.fwd_dts = 0 .. MaxDt], EmptyDir)

SpecTime == InitTime /\ [][NextRun]_vars

\* SpecDist: 1 .. MaxRanks workers in one run with the verbose logger
CfgDist ==
  {[BaseCfg EXCEPT !.nranks = n, !.total_epochs = te, !.loader_len = ll,
                   !.pass_len = ll, !.use_logger = TRUE, !.logger_iter_interval = li,
                   !.ckpt_save_time_interval = 2] :
     n \in 1 .. MaxRanks, te \in 1 .. MaxEpochs, ll \in 1 .. MaxLen,
     li \in 1 .. MaxInterval}

InitDist == \E c \in CfgDist : InitWith(c, BaseEnv, EmptyDir)

SpecDist == InitDist /\ [][NextRun]_vars

\* SpecResume: a run from epoch 0 and step 0 that may be stopped once at any point
\* and started again from one of the checkpoints it wrote
CfgResume ==
  {[BaseCfg EXCEPT !.total_epochs = te, !.loader_len = ll, !.pass_len = ll,
                   !.ckpt_save_time_interval = ti] :
     te \in 1 .. MaxEpochs, ll \in 1 .. MaxLen, ti \in 1 .. 2}

InitResume == \E c \in CfgResume : InitWith(c, BaseEnv, EmptyDir)

NextResume == NextRun \/ \E f \in FileNames : Resume(f)

SpecResume == InitResume /\ [][NextResume]_vars

\* ------------------------------------------------------------------ claims
\* whether rank r is inside train_one_epoch (its local counter is the live one)
InEpoch(r) ==
  \/ pc[r] \in {"fetch", "reduce", "tail", "epoch_end"}
  \/ (pc[r] = "aborted" /\ err[r] # "ZeroDivisionError")

\* the driver's global step counter: train_one_epoch's local while an epoch runs,
\* train_model's between epochs
GlobalStep(r) == IF InEpoch(r) THEN loop[r].acc ELSE accumulated_iter[r]

\* a step in which rank r completes a training step
StepDone(r) == pc[r] = "fetch" /\ pc'[r] = "reduce"

\* C1: the global step counter grows by exactly 1 in each iteration whose training
\* step completes and changes in no other step (so it never decreases and is never
\* reset, also across the return to train_model and the call of the next epoch);
\* the value train_one_epoch returns is the value passed in plus the number of
\* iterations it ran.
C1_StepCounter ==
  /\ [](\A r \in Ranks :
          /\ InEpoch(r) => loop[r].acc = loop[r].entered + loop[r].iters
          /\ (pc[r] = "epoch" /\ loop[r].iters > 0) =>
               accumulated_iter[r] = loop[r].entered + loop[r].iters)
  /\ [][\A r \in Ranks :
          /\ GlobalStep(r)' = GlobalStep(r) + (IF StepDone(r) THEN 1 ELSE 0)
          /\ accumulated_iter'[r] >= accumulated_iter[r]]_vars

\* a run of three epochs that ended, each epoch having completed its steps
C1_Witness ==
  /\ pc[0] = "done"
  /\ cfg.total_epochs = 3
  /\ cfg.start_epoch = 0
  /\ accumulated_iter[0] >= cfg.start_iter + 3
  /\ loop[0].iters >= 2

\* C2: an exhausted iterator never ends the epoch and StopIteration never leaves
\* train_one_epoch: the iterator is made anew from the loader, the batch drawn is
\* the first of the new pass, and an epoch ends only after iteration
\* total_it_each_epoch - 1 ran its training step, every iteration from start_it on
\* having run.
C2_Exhaustion ==
  \A r \in Ranks :
    /\ err[r] # "StopIteration"
    /\ pc[r] = "epoch_end" =>
         /\ loop[r].cur_it = TotalItEachEpoch - 1
         /\ loop[r].iters = TotalItEachEpoch - loop[r].start_it
    /\ (pc[r] \in {"reduce", "tail"} /\ loop[r].restarted) =>
         /\ loop[r].batch = 0
         /\ ~iter[r].is_main
         /\ iter[r].own_pos = 1

\* an epoch that began with the exhausted iterator of the epoch before, restarted
\* the iterator twice and ran to its end
C2_Witness ==
  /\ pc[0] = "epoch_end"
  /\ loop[0].stale
  /\ loop[0].restarts >= 2
  /\ cur_epoch[0] >= 1

\* the epoch-numbered files in the directory before the last sweep
SweptList == {f \in EpochFiles : sweep.before[f] > 0}

\* C3: on the lead worker with max_ckpt_save_num >= 1, after each end-of-epoch save
\* at most max_ckpt_save_num epoch-numbered files exist, the file just written is
\* among them, and the sweep removed only files that existed and whose mtime is not
\* newer than that of any file it kept.
C3_Retention ==
  sweep.written # -1 =>
    /\ Cardinality(CkptList(disk)) <= cfg.max_ckpt_save_num
    /\ disk[sweep.written].mtime > 0
    /\ sweep.removed \subseteq SweptList
    /\ \A x \in sweep.removed : disk[x].mtime = 0 \/ x = sweep.written
    /\ \A x \in sweep.removed, y \in SweptList \ sweep.removed :
         sweep.before[x] <= sweep.before[y]
    /\ CkptList(disk) = (SweptList \ sweep.removed) \cup {sweep.written}

\* a save whose sweep removed two older files from a full directory and kept a
\* newer one
C3_Witness ==
  /\ sweep.written # -1
  /\ Cardinality(sweep.removed) >= 2
  /\ cfg.max_ckpt_save_num = 2
  /\ \E x \in sweep.removed, y \in SweptList \ sweep.removed :
       sweep.before[x] < sweep.before[y]
  /\ Cardinality(CkptList(disk)) = 2

\* the last log line of the lead worker
LastLine == log[0].last[1]

\* meter n is empty / holds exactly the values of sequence w
MeterHolds(m, w) == m.sum = SumSeq(w) /\ m.count = Len(w)

\* C4 as claimed: right after a log line every meter of the epoch is empty, and
\* every average the line showed is the mean of the values fed since the line before.
C4_AllMetersReset ==
  lead.emitted =>
    \A n \in MeterNames :
      /\ lead.meters[n] = MeterNew
      /\ MeterHolds(LastLine.avg[n], hist.shown[n])

\* C4, amended: right after a log line the loss, head-loss and rcnn-loss meters are
\* empty, and the averages of these meters the line showed are the means of the
\* values fed since the line before (or since the epoch began); between lines they
\* hold exactly the values fed since the last line.  The data, forward and batch
\* timing meters are not reset by a line: they hold every value of the epoch so far.
C4_LossMetersReset ==
  /\ \A n \in LossMeters : MeterHolds(lead.meters[n], hist.win[n])
  /\ \A n \in TimeMeters : MeterHolds(lead.meters[n], hist.all[n])
  /\ lead.emitted =>
       /\ \A n \in LossMeters :
            /\ lead.meters[n] = MeterNew
            /\ MeterHolds(LastLine.avg[n], hist.shown[n])
       /\ \A n \in TimeMeters : MeterHolds(LastLine.avg[n], hist.all[n])

\* the second log line of an epoch: it shows the one loss fed since the first line,
\* which differs from the losses fed before, and the timing of all three iterations
C4_Witness ==
  /\ lead.emitted
  /\ Len(hist.all["loss_disp"]) = 3
  /\ Len(hist.shown["loss_disp"]) = 1
  /\ Len(hist.shown["hm_loss_disp"]) = 1
  /\ Len(hist.all["rcnn_reg_loss_disp"]) = 2
  /\ hist.all["loss_disp"] = <<1, 1, 2>>
  /\ LastLine.avg["loss_disp"] = [sum |-> 2, count |-> 1]
  /\ LastLine.avg["batch_time"].count = 3

\* the lead worker has made the time check of an iteration of this epoch
AfterCheck == pc[0] \in {"fetch", "epoch_end", "epoch", "done"} /\ lead.checks > 0

\* pbar.format_dict['elapsed'] at the last check
Elapsed == lead.clock - lead.pbar_start

\* C5 as claimed: after each iteration's check the latest-slot writes of the epoch
\* number floor(elapsed / ckpt_save_time_interval).
C5_WritesEqualFloor ==
  AfterCheck => lead.latest_writes = Elapsed \div cfg.ckpt_save_time_interval

\* C5, amended: each check writes the latest slot at most once.  After each check
\* the writes of the epoch number at most floor(elapsed / interval); they number
\* exactly that when the elapsed time grew by no more than one interval between
\* checks, and as long as they number less, every check writes.  The count starts at zero in
\* each epoch, and an epoch that has run one interval but not two has written once.
C5_WritesCatchUp ==
  LET floor == Elapsed \div cfg.ckpt_save_time_interval IN
  /\ (pc[0] = "fetch" /\ lead.checks = 0) => lead.latest_writes = 0
  /\ AfterCheck =>
       /\ lead.latest_writes <= floor
       /\ lead.latest_writes <= lead.checks
       /\ lead.max_gap <= cfg.ckpt_save_time_interval => lead.latest_writes = floor
       /\ lead.latest_writes < floor => lead.wrote
       /\ floor = 1 => lead.latest_writes = 1
       /\ lead.latest_writes > 0 =>
            /\ disk[LatestModel].mtime > 0
            /\ disk[LatestModel].epoch = cur_epoch[0] - (IF pc[0] \in {"epoch", "done"} THEN 1 ELSE 0)

\* the second epoch of a run, two intervals in, no iteration longer than an interval
C5_Witness ==
  /\ AfterCheck
  /\ cur_epoch[0] = 1
  /\ pc[0] = "epoch_end"
  /\ cfg.ckpt_save_time_interval = 2
  /\ lead.max_gap = 2
  /\ Elapsed = 5
  /\ lead.latest_writes = 2

\* the log lines of all the workers together
TotalLines == SumOver([r \in Ranks |-> log[r].count], Ranks)

\* the lead worker has finished the iteration that made the global step
\* logger_iter_interval, in a run that started at step 0
ReachedInterval ==
  /\ cfg.use_logger
  /\ cfg.start_iter = 0
  /\ GlobalStep(0) = cfg.logger_iter_interval
  /\ pc[0] \notin {"reduce", "tail"}

\* exactly one line was logged, by the lead worker, in the iteration that made the
\* global step logger_iter_interval, with the remaining time of the whole run
\* second_each_iter * ((total_epochs - cur_epoch) * total_it_each_epoch - cur_it)
OneLineAtInterval ==
  /\ TotalLines = 1
  /\ log[0].count = 1
  /\ LastLine.rank = 0
  /\ LastLine.acc_iter = cfg.logger_iter_interval
  /\ LastLine.den = LastLine.cur_it + 1
  /\ LastLine.remaining_all =
       LastLine.elapsed *
         ((cfg.total_epochs - LastLine.epoch) * TotalItEachEpoch - LastLine.cur_it)

\* C6 as claimed: for any epoch length, a run from step 0 to step
\* logger_iter_interval has logged exactly one line.
C6_OneLineAnyLength == ReachedInterval => OneLineAtInterval

\* C6, amended: for an epoch length total_it_each_epoch >= logger_iter_interval
\* with logger_iter_interval >= 2 (or both 1), a run from step 0 to step
\* logger_iter_interval has logged exactly one line; ranks other than 0 log nothing
\* in any run.
C6_OneLineLongEpoch ==
  /\ \A r \in Ranks \ {0} : log[r].count = 0
  /\ (/\ ReachedInterval
      /\ TotalItEachEpoch >= cfg.logger_iter_interval
      /\ (cfg.logger_iter_interval >= 2 \/ TotalItEachEpoch = 1))
     => /\ OneLineAtInterval
        /\ LastLine.epoch = cfg.start_epoch
        /\ LastLine.cur_it = cfg.logger_iter_interval - 1

\* three workers, interval 3, epochs of 3 iterations, two epochs to come: every
\* worker is past step 3 and the one line stands
C6_Witness ==
  /\ ReachedInterval
  /\ cfg.nranks = 3
  /\ cfg.logger_iter_interval = 3
  /\ TotalItEachEpoch = 3
  /\ cfg.total_epochs = 3
  /\ \A r \in Ranks : pc[r] = "epoch" /\ accumulated_iter[r] = 3
  /\ TotalLines = 1
  /\ LastLine.remaining_all = 3 * 7

\* C7: every checkpoint written carries the writer's global step counter as `it` and
\* the epoch handed to checkpoint_state as `epoch`: the running epoch cur_epoch for
\* latest_model, the trained epoch cur_epoch + 1 (which also names the file) for an
\* epoch-numbered checkpoint.
C7_CheckpointFields ==
  [][\A f \in FileNames :
       (disk'[f] # disk[f] /\ disk'[f].mtime > 0) =>
         /\ disk'[f].it = GlobalStep(0)
         /\ disk'[f].it = GlobalStep(0)'
         /\ IF f = LatestModel
            THEN disk'[f].epoch = cur_epoch[0] /\ cur_epoch'[0] = cur_epoch[0]
            ELSE disk'[f].epoch = cur_epoch[0] + 1 /\ f = cur_epoch[0] + 1
                 /\ cur_epoch'[0] = disk'[f].epoch]_vars

\* both kinds of checkpoint were written, the epoch-numbered one last
C7_Witness ==
  /\ pc[0] = "epoch"
  /\ cur_epoch[0] = 2
  /\ disk[LatestModel].mtime > 0
  /\ disk[LatestModel].it = 3
  /\ disk[2].mtime > 0
  /\ disk[2].it = accumulated_iter[0]
  /\ disk[2].it = 4

\* the first epoch a run executes at or after the hook's threshold
HookEpoch(r) == Max(cfg.start_epoch, cfg.total_epochs - cfg.hook)

\* C8: with the hook configured the augmentation configuration is replaced at most
\* once: at the start of the first executed epoch with
\* cur_epoch >= total_epochs - NUM_LAST_EPOCHS, before its iterations; it stays
\* replaced in every later epoch and is never reverted.  Without the hook it is
\* never replaced.
C8_HookOnce ==
  /\ [](\A r \in Ranks :
          /\ aug_replaced[r] <= 1
          /\ aug_replaced[r] = 1 <=> data_augmentor[r] = "reduced"
          /\ augment_disable_flag[r] <=> data_augmentor[r] = "reduced"
          /\ cfg.hook = NoHook => data_augmentor[r] = "full"
          /\ (InEpoch(r) /\ cfg.hook # NoHook) =>
               (data_augmentor[r] = "reduced" <=> cur_epoch[r] >= HookEpoch(r)))
  /\ [][\A r \in Ranks :
          /\ data_augmentor[r] = "reduced" => data_augmentor'[r] = "reduced"
          /\ data_augmentor'[r] # data_augmentor[r] =>
               /\ pc[r] = "epoch"
               /\ cur_epoch[r] = HookEpoch(r)
               /\ loop'[r].iters = 0]_vars

\* the second epoch after the one that replaced the configuration
C8_Witness ==
  /\ pc[0] = "fetch"
  /\ cfg.hook = 3
  /\ cfg.total_epochs = 3
  /\ cfg.start_epoch = 0
  /\ cur_epoch[0] = 2
  /\ aug_replaced[0] = 1
  /\ data_augmentor[0] = "reduced"

\* every worker has returned from train_model
AllDone == \A r \in Ranks : pc[r] = "done"

\* C9: workers started alike run the same iterations and each enters the reduction
\* three times per iteration whatever its rank: a worker's count of reductions
\* entered is three per completed iteration (plus its place in the running one), no
\* worker is more than one reduction ahead of another, workers returning from the
\* same reduction hold the same value, a worker that has returned has entered
\* every reduction another worker still waits in, some worker can always take a step until all
\* have returned, and all return with the same global step counter.
C9_Lockstep ==
  /\ \A r \in Ranks :
       /\ coll[r].n = IF pc[r] = "reduce"
                      THEN 3 * (GlobalStep(r) - 1 - cfg.start_iter) + coll[r].k
                      ELSE 3 * (GlobalStep(r) - cfg.start_iter)
       /\ \A s \in Ranks :
            /\ coll[r].n - coll[s].n <= 1
            /\ (pc[r] = "reduce" /\ pc[s] = "done") => coll[s].n >= coll[r].n
            /\ (pc[r] = "tail" /\ pc[s] = "tail") =>
                 /\ loop[r].avg_data = loop[s].avg_data
                 /\ loop[r].avg_fwd = loop[s].avg_fwd
                 /\ loop[r].avg_batch = loop[s].avg_batch
                 /\ loop[r].avg_batch = cfg.nranks * loop[r].batch_t
  /\ AllDone \/ ENABLED NextRun
  /\ AllDone => \A r \in Ranks :
                  accumulated_iter[r] = cfg.total_epochs * TotalItEachEpoch

\* three workers have returned from a run of two epochs of three iterations
C9_Witness ==
  /\ AllDone
  /\ cfg.nranks = 3
  /\ cfg.total_epochs = 2
  /\ TotalItEachEpoch = 3
  /\ \A r \in Ranks : coll[r].n = 18 /\ accumulated_iter[r] = 6

\* C10 as claimed: a run from epoch 0 and step 0, stopped and started again from
\* the epoch and it of any checkpoint it wrote, returns with the global step counter
\* total_epochs * total_it_each_epoch, as the uninterrupted run does.
C10_ResumeSameFinalStep ==
  pc[0] = "done" => accumulated_iter[0] = cfg.total_epochs * TotalItEachEpoch

====
